---- MODULE Spec2Model ----
(***************************************************************************)
(* Model of src/engine/bing.rs: search_links, fetch and extract_links.     *)
(*                                                                         *)
(* A page is the markup text, modelled as its sequence of tags.  The       *)
(* document tree is the vector of nodes select::Document keeps: nodes in   *)
(* document order, each with the index of its parent (0: no parent).       *)
(***************************************************************************)
EXTENDS Integers, Sequences, FiniteSets, TLC

\* ------------------------------------------------------------------------
\* State
\* ------------------------------------------------------------------------
VARIABLES
    input,            \* the page extract_links is called with (SpecExtract, SpecCalls)
    ret,              \* extract_links' return value, NotRun before it returns
    xpc,              \* position inside extract_links: "idle", "loop"
    doc,              \* let doc: Document
    next,             \* the index doc.find's iterator looks at next
    links,            \* let mut links: Vec<String>
    history,          \* the finished extract_links calls: their page and return value
    pc,               \* position of each search_links invocation
    query,            \* its argument
    client,           \* the reqwest client fetch built
    jar,              \* the cookie store of each client
    request,          \* the GET it sent
    gets,             \* the number of GETs it sent
    res,              \* the response body it received
    fetched,          \* the value fetch returned
    page,             \* let page: String
    extract_results,  \* let extract_results
    result            \* the value search_links returned

xvars == <<input, ret, xpc, doc, next, links, history>>
svars == <<pc, query, client, jar, request, gets, res, fetched, page,
           extract_results, result>>
vars == <<input, ret, xpc, doc, next, links, history, pc, query, client, jar,
          request, gets, res, fetched, page, extract_results, result>>

\* ------------------------------------------------------------------------
\* Bounds of the model
\* ------------------------------------------------------------------------
\* Largest number of elements of an exhaustively enumerated page body.
MaxNodes == 4
\* Largest number of result blocks of a page built from the block catalogue.
MaxCards == 3
\* Largest number of consecutive extract_links calls of SpecCalls.
MaxCalls == 3

\* ------------------------------------------------------------------------
\* Markup: tags and pages
\* ------------------------------------------------------------------------
NoAttr == "<no attribute>"
Hrefs == {"https://test_link1", "https://test_link2"}

OpenTag(n, c, h) == [t |-> "open", name |-> n, class |-> c, href |-> h]
CloseTag(n) == [t |-> "close", name |-> n, class |-> {}, href |-> NoAttr]

\* The start tags a page body is enumerated over.
Kinds ==
    { OpenTag("div", {"b_algo"}, NoAttr),
      OpenTag("div", {}, NoAttr),
      OpenTag("h2", {}, NoAttr),
      OpenTag("a", {}, NoAttr) }
    \cup { OpenTag("a", {}, h) : h \in Hrefs }

\* Parent vectors of the forests of n elements listed in document order: the
\* parent of element i is 0 (top level) or lies on the path from element i-1
\* to the top.
RECURSIVE UpPath(_, _)
UpPath(par, i) == IF i = 0 THEN {} ELSE {i} \cup UpPath(par, par[i])

Shapes(n) ==
    { par \in [1..n -> 0..(n - 1)] :
        \A i \in 1..n : par[i] = 0 \/ par[i] \in UpPath(par, i - 1) }

\* The markup of a forest: start tags in document order, every element closed
\* by its own end tag.
RECURSIVE Markup(_, _, _, _, _)
Markup(kinds, par, i, open, out) ==
    IF open # <<>> /\ (i > Len(kinds) \/ Head(open) # par[i])
    THEN Markup(kinds, par, i, Tail(open),
                Append(out, CloseTag(kinds[Head(open)].name)))
    ELSE IF i > Len(kinds) THEN out
    ELSE Markup(kinds, par, i + 1, <<i>> \o open, Append(out, kinds[i]))

\* The markup is one the HTML tree builder takes as written: no <a> is opened
\* inside an open <a> (the parser would restructure it).
NoNestedAnchor(kinds, par) ==
    \A i \in 1..Len(kinds) :
        kinds[i].name = "a" =>
            \A j \in UpPath(par, par[i]) : kinds[j].name # "a"

\* pg is the markup of a forest of at most MaxNodes elements.
IsTreePage(pg) ==
    \E n \in 0..MaxNodes :
        \E kinds \in [1..n -> Kinds] :
            \E par \in Shapes(n) :
                /\ NoNestedAnchor(kinds, par)
                /\ pg = Markup(kinds, par, 1, <<>>, <<>>)

\* Result blocks as the search engine writes them, and near misses of them.
Card(h) ==
    << OpenTag("li", {"b_algo"}, NoAttr), OpenTag("h2", {}, NoAttr),
       OpenTag("a", {}, h),
       CloseTag("a"), CloseTag("h2"), CloseTag("li") >>

Blocks ==
    { Card(h) : h \in Hrefs \cup {NoAttr} }
    \cup
    { \* a card in a card
      << OpenTag("div", {"b_algo"}, NoAttr) >> \o Card("https://test_link2")
        \o << CloseTag("div") >>,
      \* the anchor deeper in the heading
      << OpenTag("li", {"b_algo"}, NoAttr), OpenTag("h2", {}, NoAttr),
         OpenTag("div", {}, NoAttr), OpenTag("a", {}, "https://test_link1"),
         CloseTag("a"), CloseTag("div"), CloseTag("h2"), CloseTag("li") >>,
      \* an anchor in a card but in no heading
      << OpenTag("li", {"b_algo"}, NoAttr), OpenTag("a", {}, "https://test_link1"),
         CloseTag("a"), CloseTag("li") >>,
      \* a heading and anchor in a list item that is no card
      << OpenTag("li", {}, NoAttr), OpenTag("h2", {}, NoAttr),
         OpenTag("a", {}, "https://test_link2"),
         CloseTag("a"), CloseTag("h2"), CloseTag("li") >>,
      \* the class on the heading itself
      << OpenTag("h2", {"b_algo"}, NoAttr), OpenTag("a", {}, "https://test_link1"),
         CloseTag("a"), CloseTag("h2") >> }

RECURSIVE Concat(_)
Concat(ss) == IF ss = <<>> THEN <<>> ELSE Head(ss) \o Concat(Tail(ss))

\* <html><body> blocks </body></html>
Wrap(body) ==
    << OpenTag("html", {}, NoAttr), OpenTag("body", {}, NoAttr) >> \o body
    \o << CloseTag("body"), CloseTag("html") >>

\* pg is a page of at most MaxCards blocks.
IsCardPage(pg) ==
    \E n \in 0..MaxCards :
        \E bs \in [1..n -> Blocks] : pg = Wrap(Concat(bs))

\* The page of test_extract_links and the page of
\* test_extract_links_when_there_are_no_links_available.
TestPage == Wrap(Card("https://test_link1") \o Card("https://test_link2"))
EmptyPage == << OpenTag("html", {}, NoAttr), CloseTag("html") >>

\* ------------------------------------------------------------------------
\* select::Document and the predicates of extract_links
\* ------------------------------------------------------------------------
Node(tag, p) ==
    [name |-> tag.name, class |-> tag.class, href |-> tag.href, parent |-> p]

\* The elements every parsed document has: html, head, body.
Skeleton ==
    << Node(OpenTag("html", {}, NoAttr), 0),
       Node(OpenTag("head", {}, NoAttr), 1),
       Node(OpenTag("body", {}, NoAttr), 1) >>

Implied == {"html", "head", "body"}

\* The open elements, innermost first, after an end tag named n: nothing
\* changes if no open element has that name, else the elements up to and
\* including the innermost one of that name are closed.
RECURSIVE PopTo(_, _, _)
PopTo(tree, open, n) ==
    IF open = <<>> THEN <<>>
    ELSE IF tree[Head(open)].name = n THEN Tail(open)
    ELSE PopTo(tree, Tail(open), n)

HasOpen(tree, open, n) == \E k \in 1..Len(open) : tree[open[k]].name = n

\* The tree builder: tags in order; `open` is the stack of open elements,
\* innermost first, with body (node 3) at its bottom.
RECURSIVE Build(_, _, _, _)
Build(text, i, open, tree) ==
    IF i > Len(text) THEN tree
    ELSE LET tag == text[i] IN
      IF tag.name \in Implied THEN Build(text, i + 1, open, tree)
      ELSE IF tag.t = "open"
      THEN LET \* a heading start tag closes a heading that is the current node
               at == IF tag.name = "h2" /\ tree[Head(open)].name = "h2"
                     THEN Tail(open) ELSE open
           IN Build(text, i + 1, <<Len(tree) + 1>> \o at,
                    Append(tree, Node(tag, Head(at))))
      ELSE IF HasOpen(tree, open, tag.name)
      THEN Build(text, i + 1, PopTo(tree, open, tag.name), tree)
      ELSE Build(text, i + 1, open, tree)

\* Document::from(page.as_str())
Document_from(text) == Build(text, 1, <<3>>, Skeleton)

\* Class("b_algo")
Class(tree, i, c) == c \in tree[i].class

\* Name("h2"), Name("a")
Name(tree, i, n) == tree[i].name = n

\* Class("b_algo").descendant(Name("h2")): node i is an h2 and the walk up its
\* parents meets a node of class b_algo.
RECURSIVE WalkClass(_, _)
WalkClass(tree, current) ==
    LET parent == tree[current].parent IN
    IF parent = 0 THEN FALSE
    ELSE IF Class(tree, parent, "b_algo") THEN TRUE
    ELSE WalkClass(tree, parent)

CardHeading(tree, i) == Name(tree, i, "h2") /\ WalkClass(tree, i)

\* (...).descendant(Name("a")): node i is an a and the walk up its parents
\* meets a node matching Class("b_algo").descendant(Name("h2")).
RECURSIVE WalkHeading(_, _)
WalkHeading(tree, current) ==
    LET parent == tree[current].parent IN
    IF parent = 0 THEN FALSE
    ELSE IF CardHeading(tree, parent) THEN TRUE
    ELSE WalkHeading(tree, parent)

\* A bug: only an anchor that is a child of the heading is matched.
Matches_child(tree, i) ==
    /\ Name(tree, i, "a")
    /\ tree[i].parent # 0
    /\ CardHeading(tree, tree[i].parent)

Matches(tree, i) == Name(tree, i, "a") /\ WalkHeading(tree, i)

\* node.attr("href")
attr_href(tree, i) == tree[i].href

\* ------------------------------------------------------------------------
\* extract_links
\* ------------------------------------------------------------------------
None == [some |-> FALSE, links |-> <<>>]
Some(l) == [some |-> TRUE, links |-> l]

\* A bug: the list outlives the call.
Vec_stale == links

\* let mut links: Vec<String> = Vec::new();
Vec_new == <<>>

\* A bug: the links are collected newest first.
push_link_front(tree, i, ls) ==
    IF Matches(tree, i) /\ attr_href(tree, i) # NoAttr
    THEN <<attr_href(tree, i)>> \o ls
    ELSE ls

\* A bug: an anchor without href is given an empty link.
push_link_default(tree, i, ls) ==
    IF Matches(tree, i)
    THEN Append(ls, IF attr_href(tree, i) # NoAttr THEN attr_href(tree, i) ELSE "")
    ELSE ls

\* One turn of `for node in target_elements`: doc.find visits the nodes in
\* index order and yields those the predicate matches.
push_link(tree, i, ls) ==
    IF Matches(tree, i) /\ attr_href(tree, i) # NoAttr
    THEN Append(ls, attr_href(tree, i))
    ELSE ls

RECURSIVE collect(_, _, _)
collect(tree, i, ls) ==
    IF i > Len(tree) THEN ls
    ELSE collect(tree, i + 1, push_link(tree, i, ls))

\* A bug: the empty list is returned as Some.
wrap_links_always(ls) == Some(ls)

\* if links.len() == 0 { return None; } return Some(links);
wrap_links(ls) == IF Len(ls) = 0 THEN None ELSE Some(ls)

extract_links(text) == wrap_links(collect(Document_from(text), 1, Vec_new))

\* The concurrent invocations of search_links.
Procs == {"t1", "t2"}
Queries == {"rust", "tla"}

\* A value not yet computed; an argument, client or cookie not yet there.
NotRun == [notrun |-> TRUE]
NoValue == "<none>"
NoPage == <<>>
NoRequest == [url |-> NoValue]
NoResponse == [status |-> "none"]

\* ------------------------------------------------------------------------
\* Errors and results
\* ------------------------------------------------------------------------
Ok(v) == [kind |-> "Ok", value |-> v]
Err(e) == [kind |-> "Err", err |-> e]

\* impl From<reqwest::Error> for HorsError: one transport kind, the cause kept.
from_reqwest(cause) == [kind |-> "Network", detail |-> cause]

\* HorsError::from_parse(msg)
from_parse(msg) == [kind |-> "Parse", detail |-> msg]

\* crate::utils::random_agent(): one of a pool of browser user agents.
UserAgents == {"Mozilla/5.0 (X11)", "Mozilla/5.0 (Windows)"}

\* The reqwest failures of fetch.
BuilderError == "reqwest: builder error"
SendError == "reqwest: error sending request"
BodyError == "reqwest: error decoding response body"

\* A response: a body text() reads as text, or one it cannot read.
Body(text) == [status |-> "ok", text |-> text]
Unreadable == [status |-> "unreadable"]

\* The pages the search engine answers with.
ServerPages ==
    { EmptyPage, TestPage, Wrap(Card(NoAttr)),
      Wrap(Card(NoAttr) \o Card("https://test_link2")) }

Responses == { Body(pg) : pg \in ServerPages } \cup {Unreadable}

\* The pages SpecCalls calls extract_links with.
CallPages == { Wrap(b) : b \in Blocks } \cup {EmptyPage, TestPage}

\* ------------------------------------------------------------------------
\* extract_links, statement by statement (SpecCalls)
\* ------------------------------------------------------------------------
XIdle ==
    /\ input = NoPage /\ ret = NotRun /\ xpc = "idle" /\ doc = <<>>
    /\ next = 0 /\ links = <<>> /\ history = <<>>

\* extract_links(&page) is entered: links and doc are initialised and
\* doc.find(...) makes its iterator.
ExtractBegin(pg) ==
    /\ xpc = "idle"
    /\ Len(history) < MaxCalls
    /\ input' = pg
    /\ ret' = NotRun
    /\ links' = Vec_new
    /\ doc' = Document_from(pg)
    /\ next' = 1
    /\ xpc' = "loop"
    /\ UNCHANGED history
    /\ UNCHANGED svars

\* The iterator looks at one node; the loop body runs if it matches.
ExtractStep ==
    /\ xpc = "loop"
    /\ next <= Len(doc)
    /\ links' = push_link(doc, next, links)
    /\ next' = next + 1
    /\ UNCHANGED <<input, ret, xpc, doc, history>>
    /\ UNCHANGED svars

\* The iterator is exhausted: the length test and the return.
ExtractReturn ==
    /\ xpc = "loop"
    /\ next > Len(doc)
    /\ ret' = wrap_links(links)
    /\ history' = Append(history, [page |-> input, ret |-> ret'])
    /\ xpc' = "idle"
    /\ UNCHANGED <<input, doc, next, links>>
    /\ UNCHANGED svars

\* ------------------------------------------------------------------------
\* extract_links as one step on an arbitrary page (SpecExtract)
\* ------------------------------------------------------------------------
ExtractCall ==
    /\ xpc = "call"
    /\ ret = NotRun
    /\ ret' = extract_links(input)
    /\ UNCHANGED <<input, xpc, doc, next, links, history>>
    /\ UNCHANGED svars

\* ------------------------------------------------------------------------
\* search_links and fetch
\* ------------------------------------------------------------------------
SIdle ==
    /\ pc = [p \in Procs |-> "idle"]
    /\ query = [p \in Procs |-> NoValue]
    /\ client = [p \in Procs |-> NoValue]
    /\ jar = [c \in Procs |-> {}]
    /\ request = [p \in Procs |-> NoRequest]
    /\ gets = [p \in Procs |-> 0]
    /\ res = [p \in Procs |-> NoResponse]
    /\ fetched = [p \in Procs |-> NotRun]
    /\ page = [p \in Procs |-> NoPage]
    /\ extract_results = [p \in Procs |-> NotRun]
    /\ result = [p \in Procs |-> NotRun]

\* format!("https://www.bing.com/search?q=site:stackoverflow.com%20{}", query)
format_url(q) == "https://www.bing.com/search?q=site:stackoverflow.com%20" \o q

\* A bug: one client, kept for all invocations.
ClientBuilder_shared(p) == CHOOSE c \in Procs : TRUE

\* reqwest::ClientBuilder::new().cookie_store(true).build(): a client of the
\* invocation's own.
ClientBuilder_build(p) == p

\* The session cookie the server sets in its answer to p's request.
Cookie(p) == <<"sid", p>>

\* A bug: every failure is reported as "no search result".
question_mark_parse(r) == Err(from_parse("Can't find search result..."))

\* `fetch(query)?` on Err(e): search_links returns fetch's error.
question_mark(r) == r

\* A bug: no links is a success with an empty list.
match_results_empty(er) == Ok(er.links)

\* A bug: only the first link is returned.
match_results_first(er) ==
    IF er.some THEN Ok(<<Head(er.links)>>)
    ELSE Err(from_parse("Can't find search result..."))

\* The match on extract_results.
match_results(er) ==
    IF er.some THEN Ok(er.links)
    ELSE Err(from_parse("Can't find search result..."))

\* search_links(query) is called.
Call(p, q) ==
    /\ pc[p] = "idle"
    /\ query' = [query EXCEPT ![p] = q]
    /\ pc' = [pc EXCEPT ![p] = "fetch"]
    /\ UNCHANGED <<client, jar, request, gets, res, fetched, page,
                   extract_results, result>>
    /\ UNCHANGED xvars

\* fetch: the client is built, with an empty cookie store.
BuildOk(p) ==
    /\ pc[p] = "fetch"
    /\ client' = [client EXCEPT ![p] = ClientBuilder_build(p)]
    /\ jar' = [jar EXCEPT ![client'[p]] = {}]
    /\ pc' = [pc EXCEPT ![p] = "send"]
    /\ UNCHANGED <<query, request, gets, res, fetched, page, extract_results,
                   result>>
    /\ UNCHANGED xvars

\* fetch: build() fails; `?` returns the error from fetch and from search_links.
BuildErr(p) ==
    /\ pc[p] = "fetch"
    /\ fetched' = [fetched EXCEPT ![p] = Err(from_reqwest(BuilderError))]
    /\ result' = [result EXCEPT ![p] = question_mark(fetched'[p])]
    /\ pc' = [pc EXCEPT ![p] = "done"]
    /\ UNCHANGED <<query, client, jar, request, gets, res, page,
                   extract_results>>
    /\ UNCHANGED xvars

\* fetch: request.send() puts the GET on the wire, with the cookies of the
\* client's store.
Send(p, ua) ==
    /\ pc[p] = "send"
    /\ request' = [request EXCEPT ![p] =
                     [url |-> format_url(query[p]), agent |-> ua,
                      cookies |-> jar[client[p]]]]
    /\ gets' = [gets EXCEPT ![p] = @ + 1]
    /\ pc' = [pc EXCEPT ![p] = "sent"]
    /\ UNCHANGED <<query, client, jar, res, fetched, page, extract_results,
                   result>>
    /\ UNCHANGED xvars

\* A bug: a failed send() is tried again.
SendErr_retry(p) ==
    /\ pc[p] = "sent"
    /\ pc' = [pc EXCEPT ![p] = "send"]
    /\ UNCHANGED <<query, client, jar, request, gets, res, fetched, page,
                   extract_results, result>>
    /\ UNCHANGED xvars

\* fetch: send() fails.
SendErr(p) ==
    /\ pc[p] = "sent"
    /\ fetched' = [fetched EXCEPT ![p] = Err(from_reqwest(SendError))]
    /\ result' = [result EXCEPT ![p] = question_mark(fetched'[p])]
    /\ pc' = [pc EXCEPT ![p] = "done"]
    /\ UNCHANGED <<query, client, jar, request, gets, res, page,
                   extract_results>>
    /\ UNCHANGED xvars

\* fetch: send() returns the response; its cookie goes to the client's store.
Respond(p, body) ==
    /\ pc[p] = "sent"
    /\ res' = [res EXCEPT ![p] = body]
    /\ jar' = [jar EXCEPT ![client[p]] = @ \cup {Cookie(p)}]
    /\ pc' = [pc EXCEPT ![p] = "text"]
    /\ UNCHANGED <<query, client, request, gets, fetched, page,
                   extract_results, result>>
    /\ UNCHANGED xvars

\* fetch: res.text() reads the body; fetch returns Ok(page).
TextOk(p) ==
    /\ pc[p] = "text"
    /\ res[p] # Unreadable
    /\ fetched' = [fetched EXCEPT ![p] = Ok(res[p].text)]
    /\ page' = [page EXCEPT ![p] = fetched'[p].value]
    /\ pc' = [pc EXCEPT ![p] = "extract"]
    /\ UNCHANGED <<query, client, jar, request, gets, res, extract_results,
                   result>>
    /\ UNCHANGED xvars

\* fetch: res.text() fails.
TextErr(p) ==
    /\ pc[p] = "text"
    /\ res[p] = Unreadable
    /\ fetched' = [fetched EXCEPT ![p] = Err(from_reqwest(BodyError))]
    /\ result' = [result EXCEPT ![p] = question_mark(fetched'[p])]
    /\ pc' = [pc EXCEPT ![p] = "done"]
    /\ UNCHANGED <<query, client, jar, request, gets, res, page,
                   extract_results>>
    /\ UNCHANGED xvars

\* let extract_results = extract_links(&page);
Extract(p) ==
    /\ pc[p] = "extract"
    /\ extract_results' = [extract_results EXCEPT ![p] = extract_links(page[p])]
    /\ pc' = [pc EXCEPT ![p] = "match"]
    /\ UNCHANGED <<query, client, jar, request, gets, res, fetched, page,
                   result>>
    /\ UNCHANGED xvars

\* match extract_results { Some(links) => Ok(links), None => Err(..) }
Return(p) ==
    /\ pc[p] = "match"
    /\ result' = [result EXCEPT ![p] = match_results(extract_results[p])]
    /\ pc' = [pc EXCEPT ![p] = "done"]
    /\ UNCHANGED <<query, client, jar, request, gets, res, fetched, page,
                   extract_results>>
    /\ UNCHANGED xvars

\* The caller has the result; the invocation's locals are dropped.
Finish(p) ==
    /\ pc[p] = "done"
    /\ pc' = [pc EXCEPT ![p] = "idle"]
    /\ query' = [query EXCEPT ![p] = NoValue]
    /\ client' = [client EXCEPT ![p] = NoValue]
    /\ request' = [request EXCEPT ![p] = NoRequest]
    /\ gets' = [gets EXCEPT ![p] = 0]
    /\ res' = [res EXCEPT ![p] = NoResponse]
    /\ fetched' = [fetched EXCEPT ![p] = NotRun]
    /\ page' = [page EXCEPT ![p] = NoPage]
    /\ extract_results' = [extract_results EXCEPT ![p] = NotRun]
    /\ result' = [result EXCEPT ![p] = NotRun]
    /\ UNCHANGED jar
    /\ UNCHANGED xvars

\* ------------------------------------------------------------------------
\* Specifications
\* ------------------------------------------------------------------------
\* Concurrent invocations of search_links.
Init == XIdle /\ SIdle

Next ==
    \/ \E p \in Procs, q \in Queries : Call(p, q)
    \/ \E p \in Procs : BuildOk(p)
    \/ \E p \in Procs : BuildErr(p)
    \/ \E p \in Procs, ua \in UserAgents : Send(p, ua)
    \/ \E p \in Procs : SendErr(p)
    \/ \E p \in Procs, body \in Responses : Respond(p, body)
    \/ \E p \in Procs : TextOk(p)
    \/ \E p \in Procs : TextErr(p)
    \/ \E p \in Procs : Extract(p)
    \/ \E p \in Procs : Return(p)
    \/ \E p \in Procs : Finish(p)

Spec == Init /\ [][Next]_vars

\* extract_links applied to every page of Pages.
InitExtract ==
    /\ \/ IsTreePage(input)
       \/ IsCardPage(input)
       \/ input = EmptyPage
    /\ ret = NotRun /\ xpc = "call" /\ doc = <<>>
    /\ next = 0 /\ links = <<>> /\ history = <<>>
    /\ SIdle

NextExtract == ExtractCall

SpecExtract == InitExtract /\ [][NextExtract]_vars

\* Consecutive calls of extract_links, statement by statement.
NextCalls ==
    \/ \E pg \in CallPages : ExtractBegin(pg)
    \/ ExtractStep
    \/ ExtractReturn

SpecCalls == Init /\ [][NextCalls]_vars

\* ------------------------------------------------------------------------
\* The document as the claims describe it
\* ------------------------------------------------------------------------
\* The elements element i lies in.
RECURSIVE Anc(_, _)
Anc(d, i) ==
    IF d[i].parent = 0 THEN {} ELSE {d[i].parent} \cup Anc(d, d[i].parent)

IsCard(d, c) == "b_algo" \in d[c].class
IsAnchor(d, i) == d[i].name = "a"
HasHref(d, i) == d[i].href # NoAttr

\* Anchor i lies in an <h2> that lies in card c.
HeldBy(d, i, c) ==
    /\ IsAnchor(d, i) /\ IsCard(d, c)
    /\ \E h \in Anc(d, i) : d[h].name = "h2" /\ c \in Anc(d, h)

Cards(d) == { c \in 1..Len(d) : IsCard(d, c) }

\* The anchors the structural selector matches, and those of them with an href.
Selected(d) == { i \in 1..Len(d) : \E c \in Cards(d) : HeldBy(d, i, c) }
Qualifying(d) == { i \in Selected(d) : HasHref(d, i) }

\* The members of a set of node indices in document order.
RECURSIVE InOrder(_)
InOrder(S) ==
    IF S = {} THEN <<>>
    ELSE LET m == CHOOSE x \in S : \A y \in S : x <= y
         IN <<m>> \o InOrder(S \ {m})

HrefsOf(d, S) == LET o == InOrder(S) IN [k \in 1..Len(o) |-> d[o[k]].href]

\* The document of the page extract_links was called with.
InputDoc == Document_from(input)
Returned == ret # NotRun

\* Every card holds exactly one anchor with an href inside an <h2> inside it.
OneAnchorEach(d) ==
    \A c \in Cards(d) :
        Cardinality({ i \in 1..Len(d) : HeldBy(d, i, c) /\ HasHref(d, i) }) = 1

AnchorOf(d, c) == CHOOSE i \in 1..Len(d) : HeldBy(d, i, c) /\ HasHref(d, i)

\* The href of the i-th card's anchor, for the cards in document order.
CardHrefs(d) ==
    LET o == InOrder(Cards(d)) IN [k \in 1..Len(o) |-> d[AnchorOf(d, o[k])].href]

NoCardInCard(d) == \A c \in Cards(d) : Anc(d, c) \cap Cards(d) = {}

\* ------------------------------------------------------------------------
\* Claims on extract_links (SpecExtract)
\* ------------------------------------------------------------------------
\* C1 as stated: on every page whose N cards each hold exactly one qualifying
\* anchor, extract_links returns Some(list) with the N hrefs of the cards'
\* anchors in document order.
C1_AsStated ==
    (Returned /\ OneAnchorEach(InputDoc)) =>
        ret = Some(CardHrefs(InputDoc))

\* C1, amended: on every page whose N cards, none inside another, each hold
\* exactly one qualifying anchor, extract_links returns the N hrefs of the
\* cards' anchors in document order: Some(list) if N >= 1, None if N = 0.
C1_CardsInOrder ==
    (Returned /\ OneAnchorEach(InputDoc) /\ NoCardInCard(InputDoc)) =>
        /\ Len(ret.links) = Cardinality(Cards(InputDoc))
        /\ ret.links = CardHrefs(InputDoc)
        /\ ret.some = (Cardinality(Cards(InputDoc)) >= 1)

C1_Witness ==
    /\ Returned /\ OneAnchorEach(InputDoc) /\ NoCardInCard(InputDoc)
    /\ Cardinality(Cards(InputDoc)) = 3
    /\ ret = Some(<<"https://test_link2", "https://test_link1",
                    "https://test_link2">>)

\* C3: a selected anchor without href adds no entry; the entries are the hrefs
\* of the other selected anchors, each at the place its anchor has among them.
C3_NoHrefSkipped ==
    Returned =>
        LET d == InputDoc
            rank(i) == Cardinality({ j \in Qualifying(d) : j <= i })
        IN /\ ret \in {None, Some(ret.links)}
           /\ Len(ret.links) =
                Cardinality(Selected(d))
                  - Cardinality({ i \in Selected(d) : ~HasHref(d, i) })
           /\ \A i \in Selected(d) :
                HasHref(d, i) =>
                    /\ rank(i) <= Len(ret.links)
                    /\ ret.links[rank(i)] = d[i].href

C3_Witness ==
    /\ Returned
    /\ \E i, j, k \in Selected(InputDoc) :
          /\ i < j /\ j < k
          /\ HasHref(InputDoc, i) /\ ~HasHref(InputDoc, j) /\ HasHref(InputDoc, k)
          /\ InputDoc[i].href # InputDoc[k].href
    /\ Len(ret.links) = 2

\* C4: extract_links returns None or Some of a non-empty list, and None exactly
\* when no anchor is selected or no selected anchor has an href.
C4_NoneOrNonEmpty ==
    Returned =>
        /\ ret # Some(<<>>)
        /\ ret = None \/ (ret.some /\ Len(ret.links) > 0)
        /\ (ret = None) <=>
             (Selected(InputDoc) = {}
                \/ \A i \in Selected(InputDoc) : ~HasHref(InputDoc, i))

C4_Witness ==
    /\ Returned /\ ret = None
    /\ Selected(InputDoc) # {}

\* C10: the collected list is, in document order, the href of every anchor
\* with an href that lies in an <h2> lying in an element of class b_algo, once
\* per anchor.
C10_ListIsSelection ==
    Returned => ret.links = HrefsOf(InputDoc, Qualifying(InputDoc))

\* An anchor in two nested cards, returned once.
C10_Witness ==
    /\ Returned
    /\ \E i \in Qualifying(InputDoc) :
          Cardinality({ c \in Cards(InputDoc) : HeldBy(InputDoc, i, c) }) >= 2
    /\ Len(ret.links) = 1

\* ------------------------------------------------------------------------
\* Claims on consecutive extract_links calls (SpecCalls)
\* ------------------------------------------------------------------------
\* C9: two calls of extract_links with the same page return the same value,
\* whatever was called before or between them.
C9_SamePageSameResult ==
    \A a, b \in 1..Len(history) :
        history[a].page = history[b].page => history[a].ret = history[b].ret

C9_Witness ==
    /\ Len(history) = 3
    /\ history[1].page = history[3].page
    /\ history[2].page # history[1].page
    /\ history[1].ret.some /\ history[2].ret.some
    /\ history[3].ret = history[1].ret

\* The statement-by-statement extract_links returns what extract_links(page) is.
StepwiseAgrees ==
    \A a \in 1..Len(history) : history[a].ret = extract_links(history[a].page)

\* ------------------------------------------------------------------------
\* Claims on search_links (Spec)
\* ------------------------------------------------------------------------
ParseError == from_parse("Can't find search result...")
Done(p) == pc[p] = "done"
FetchFailed(p) == fetched[p] # NotRun /\ fetched[p].kind = "Err"
FetchOk(p) == fetched[p] # NotRun /\ fetched[p].kind = "Ok"

\* C2: on a page with no qualifying element extract_links returns None, and
\* search_links, having fetched such a page, returns the parse error.
C2_NoLinksIsError ==
    \A p \in Procs :
        (FetchOk(p) /\ Qualifying(Document_from(fetched[p].value)) = {}) =>
            /\ extract_results[p] # NotRun => extract_results[p] = None
            /\ Done(p) => result[p] = Err(ParseError)

C2_Witness ==
    \E p \in Procs :
        /\ Done(p) /\ FetchOk(p) /\ fetched[p].value = EmptyPage
        /\ extract_results[p] = None
        /\ result[p] = Err(ParseError)

\* C5: when fetch fails, search_links returns fetch's error as it is,
\* extract_links has not run, and the error is not the parse error.
C5_TransportErrorUnchanged ==
    \A p \in Procs :
        FetchFailed(p) =>
            /\ Done(p)
            /\ result[p] = fetched[p]
            /\ result[p].err.kind = "Network"
            /\ result[p].err.detail \in {BuilderError, SendError, BodyError}
            /\ result[p] # Err(ParseError)
            /\ extract_results[p] = NotRun

C5_Witness ==
    \E p, q \in Procs :
        /\ Done(p) /\ result[p] = Err(from_reqwest(BodyError))
        /\ Done(q) /\ result[q] = Err(from_reqwest(BuilderError))

\* C6: a finished search_links has returned Ok(L), the fetch having succeeded
\* and L being the whole, non-empty list extract_links made of the fetched
\* page, or it has returned an error that carries no links.
C6_AllOrError ==
    \A p \in Procs :
        /\ Done(p) <=> result[p] # NotRun
        /\ Done(p) =>
             \/ /\ result[p].kind = "Ok"
                /\ FetchOk(p)
                /\ res[p].status = "ok"
                /\ extract_results[p] = extract_links(res[p].text)
                /\ extract_results[p].some
                /\ result[p].value = extract_results[p].links
                /\ result[p].value # <<>>
                /\ DOMAIN result[p] = {"kind", "value"}
             \/ /\ result[p].kind = "Err"
                /\ DOMAIN result[p] = {"kind", "err"}
                /\ result[p].err \in
                     {ParseError, from_reqwest(BuilderError),
                      from_reqwest(SendError), from_reqwest(BodyError)}

C6_Witness ==
    \E p \in Procs :
        /\ Done(p)
        /\ result[p] = Ok(<<"https://test_link1", "https://test_link2">>)

\* C7: an invocation sends at most one GET, and none once its fetch has failed
\* or its extraction has found no links.
Failed(p) == FetchFailed(p) \/ extract_results[p] = None

C8_Independent ==
    \A p \in Procs :
        /\ client[p] # NoValue =>
             /\ \A q \in Procs \ {p} : client[q] # client[p]
             /\ jar[client[p]] \subseteq {Cookie(p)}
        /\ request[p] # NoRequest =>
             /\ request[p].url = format_url(query[p])
             /\ request[p].cookies = {}
        /\ \A q \in Procs :
             (Done(p) /\ Done(q) /\ res[p] = res[q]
                /\ fetched[p].kind = fetched[q].kind
                /\ (FetchFailed(p) => fetched[p] = fetched[q]))
               => result[p] = result[q]

C8_Witness ==
    \E p, q \in Procs :
        /\ p # q /\ query[p] # query[q]
        /\ Done(p) /\ result[p].kind = "Ok"
        /\ Done(q) /\ result[q] = Err(from_reqwest(BodyError))
        /\ jar[client[p]] = {Cookie(p)} /\ jar[client[q]] = {Cookie(q)}

====
